---------------------------- MODULE Spec2Model ----------------------------
(***************************************************************************)
(* Memory Puzzle Game (src/project.py): the Card and Game classes and the  *)
(* event loop of main().  A session is the record `game`; the save file    *)
(* memory_puzzle_save.json is the variable `save_file`.                    *)
(***************************************************************************)
EXTENDS Integers, Sequences, FiniteSets, TLC

\* ------------------------------------------------------------ constants
WINDOW_WIDTH == 640
WINDOW_HEIGHT == 480
FPS == 30
CARD_SIZE == 100
CARD_SPACING == 10
GRID_SIZE == 4
ANIMATION_SPEED == 8

CARD_VALUES == <<"1", "2", "3", "4", "5", "6", "7", "8">>

\* -------------------------------------------------------------- bounds
\* Mouse and key events (clicks, S, L, R) that change the session or the file,
\* in one run of the program.
MaxEvents == 4
\* Habit tracker: the length of the habits list up to which habits are added.
MaxHabits == 5

VARIABLES
    game,        \* the Game object main() holds (NoGame once the program has ended)
    save_file,   \* the content of SAVE_FILE
    status,      \* main(): "starting" (before line 298), "running", "crashed", "exited"
    last_event,  \* the call that led to this state ("play": handle_click or update)
    compared,    \* history: second picks accepted since the last Game()
    from_new,    \* history: no load_game has written into the session since Game()
    events,      \* history: events of this run that changed the session or the file
    user_data,     \* habit tracker: the content of the logged-in user's data file
    edit_mode,     \* habit tracker: st.session_state.edit_mode
    habit_to_edit, \* habit tracker: st.session_state.habit_to_edit
    data_dir,      \* habit tracker accounts: the files of DATA_DIR, by path
    session_state  \* habit tracker accounts: st.session_state, the login fields

\* The memory puzzle's variables and the habit tracker's: two programs, which
\* share nothing.
game_vars == <<game, save_file, status, last_event, compared, from_new, events>>
tracker_vars == <<user_data, edit_mode, habit_to_edit>>
account_vars == <<data_dir, session_state>>
vars == <<game, save_file, status, last_event, compared, from_new, events,
          user_data, edit_mode, habit_to_edit, data_dir, session_state>>

\* load_user_data, lines 95-97: what a user without a data file has.
\* An empty dict.
EmptyDict == [key \in {} |-> FALSE]
EmptyUserData == [habits |-> <<>>, history |-> EmptyDict]
\* No habit tracker session: nobody is logged in, nothing was picked for editing.
NoTracker == user_data = EmptyUserData /\ edit_mode = FALSE /\ habit_to_edit = ""

\* lines 16-32: DATA_DIR as mkdir makes it, and the session state of a
\* visitor who has not logged in.
NoUser == "None"
LoggedOut == [user_logged_in |-> FALSE, current_user |-> NoUser,
              first_login |-> FALSE, active_tab |-> "Home"]
NoAccounts == data_dir = EmptyDict /\ session_state = LoggedOut

\* ---------------------------------------------------------------- Card
\* Card.__init__
Card(x, y, value) ==
    [x |-> x, y |-> y, value |-> value,
     is_flipped |-> FALSE, is_matched |-> FALSE, flip_progress |-> 0]

\* pygame.Rect(x, y, CARD_SIZE, CARD_SIZE).collidepoint(pos)
CollidePoint(card, pos) ==
    /\ card.x <= pos[1] /\ pos[1] < card.x + CARD_SIZE
    /\ card.y <= pos[2] /\ pos[2] < card.y + CARD_SIZE

\* Card.flip
Flip(card) == [card EXCEPT !.is_flipped = ~@]

SetMatched(card) == [card EXCEPT !.is_matched = TRUE]

\* UpdateAnimation without the clamps of lines 118-119 and 124-125.
UpdateAnimationUnclamped(card) ==
    IF card.is_flipped \/ card.is_matched
    THEN IF card.flip_progress < CARD_SIZE
         THEN [card EXCEPT !.flip_progress = @ + ANIMATION_SPEED]
         ELSE card
    ELSE IF card.flip_progress > 0
         THEN [card EXCEPT !.flip_progress = @ - ANIMATION_SPEED]
         ELSE card

\* Card.update_animation
UpdateAnimation(card) ==
    IF card.is_flipped \/ card.is_matched
    THEN IF card.flip_progress < CARD_SIZE
         THEN LET p == card.flip_progress + ANIMATION_SPEED
              IN  [card EXCEPT !.flip_progress = IF p > CARD_SIZE THEN CARD_SIZE ELSE p]
         ELSE card
    ELSE IF card.flip_progress > 0
         THEN LET p == card.flip_progress - ANIMATION_SPEED
              IN  [card EXCEPT !.flip_progress = IF p < 0 THEN 0 ELSE p]
         ELSE card

\* ---------------------------------------------------- object references
\* first_selection / second_selection hold None or a reference to a Card
\* object.  A reference is "card" (the object is game.cards[idx]) or
\* "stale": the object is no longer in game.cards (load_game replaced the
\* list) and lives on only through the reference; obj is then its state.
NoCard == Card(0, 0, "")
None == [kind |-> "none", idx |-> 0, obj |-> NoCard]
CardRef(i) == [kind |-> "card", idx |-> i, obj |-> NoCard]
StaleRef(card) == [kind |-> "stale", idx |-> 0, obj |-> card]

\* The Card object a reference points to.
Deref(g, ref) == IF ref.kind = "card" THEN g.cards[ref.idx] ELSE ref.obj

\* self.cards = [] : the Game drops its cards, references keep theirs alive.
Detach(g, ref) == IF ref.kind = "card" THEN StaleRef(g.cards[ref.idx]) ELSE ref


\* ---------------------------------------------------------------- Game
\* Store `card`, the new state of the object first_selection points to.
PutFirst(g, card) ==
    IF g.first_selection.kind = "card"
    THEN [g EXCEPT !.cards[g.first_selection.idx] = card]
    ELSE IF g.first_selection.kind = "stale"
         THEN [g EXCEPT !.first_selection.obj = card]
         ELSE g

\* Store `card`, the new state of the object second_selection points to.
PutSecond(g, card) ==
    IF g.second_selection.kind = "card"
    THEN [g EXCEPT !.cards[g.second_selection.idx] = card]
    ELSE IF g.second_selection.kind = "stale"
         THEN [g EXCEPT !.second_selection.obj = card]
         ELSE g

\* Game.initialize_cards: `values` is CARD_VALUES * 2 after random.shuffle;
\* the cards are created row by row, each taking values.pop().
start_x == (WINDOW_WIDTH - (GRID_SIZE * CARD_SIZE + (GRID_SIZE - 1) * CARD_SPACING)) \div 2
start_y == (WINDOW_HEIGHT - (GRID_SIZE * CARD_SIZE + (GRID_SIZE - 1) * CARD_SPACING)) \div 2

\* InitializeCards with the step from cell to cell CARD_SIZE - CARD_SPACING.
InitializeCardsCrowded(values) ==
    [k \in 1..(GRID_SIZE * GRID_SIZE) |->
        LET row == (k - 1) \div GRID_SIZE
            col == (k - 1) % GRID_SIZE
        IN  Card(start_x + col * (CARD_SIZE - CARD_SPACING),
                 start_y + row * (CARD_SIZE - CARD_SPACING),
                 values[Len(values) - k + 1])]

InitializeCards(values) ==
    [k \in 1..(GRID_SIZE * GRID_SIZE) |->
        LET row == (k - 1) \div GRID_SIZE
            col == (k - 1) % GRID_SIZE
        IN  Card(start_x + col * (CARD_SIZE + CARD_SPACING),
                 start_y + row * (CARD_SIZE + CARD_SPACING),
                 values[Len(values) - k + 1])]

\* NewGame with the move counter starting at 1.
NewGameCounted(values) ==
    [cards |-> InitializeCards(values),
     first_selection |-> None,
     second_selection |-> None,
     moves |-> 1,
     victory |-> FALSE,
     wait_time |-> 0]

\* Game.__init__
NewGame(values) ==
    [cards |-> InitializeCards(values),
     first_selection |-> None,
     second_selection |-> None,
     moves |-> 0,
     victory |-> FALSE,
     wait_time |-> 0]

\* No Game object: the program has ended.
NoGame ==
    [cards |-> <<>>,
     first_selection |-> None,
     second_selection |-> None,
     moves |-> 0,
     victory |-> FALSE,
     wait_time |-> 0]

\* ResetSelection without line 203.
ResetSelectionFirstOnly(g) == [g EXCEPT !.first_selection = None]

\* Game.reset_selection
ResetSelection(g) ==
    [g EXCEPT !.first_selection = None, !.second_selection = None]

\* CheckVictory without line 209.
CheckVictoryNever(g) == g

\* Game.check_victory
CheckVictory(g) ==
    IF \E i \in 1..Len(g.cards) : ~g.cards[i].is_matched
    THEN g
    ELSE [g EXCEPT !.victory = TRUE]

\* FlipBackCards without line 199: the selections stay set.
FlipBackCardsKeepsPicks(g) ==
    IF g.first_selection # None /\ g.second_selection # None
    THEN LET g1 == IF ~Deref(g, g.first_selection).is_matched
                   THEN PutFirst(g, Flip(Deref(g, g.first_selection))) ELSE g
         IN  IF ~Deref(g1, g1.second_selection).is_matched
             THEN PutSecond(g1, Flip(Deref(g1, g1.second_selection))) ELSE g1
    ELSE g

\* Game.flip_back_cards
FlipBackCards(g) ==
    IF g.first_selection # None /\ g.second_selection # None
    THEN LET g1 == IF ~Deref(g, g.first_selection).is_matched
                   THEN PutFirst(g, Flip(Deref(g, g.first_selection))) ELSE g
             g2 == IF ~Deref(g1, g1.second_selection).is_matched
                   THEN PutSecond(g1, Flip(Deref(g1, g1.second_selection))) ELSE g1
         IN  ResetSelection(g2)
    ELSE g

\* FirstPick showing the card's face at once.
FirstPickJumps(g, i) ==
    [g EXCEPT !.first_selection = CardRef(i),
              !.cards[i] = [Flip(@) EXCEPT !.flip_progress = CARD_SIZE]]

\* handle_click, lines 163-165: the clicked card becomes the first selection.
FirstPick(g, i) ==
    [g EXCEPT !.first_selection = CardRef(i), !.cards[i] = Flip(@)]

\* Compare without line 176: a match leaves the selections set.
CompareKeepsPicks(g) ==
    IF Deref(g, g.first_selection).value = Deref(g, g.second_selection).value
    THEN LET g1 == PutFirst(g, SetMatched(Deref(g, g.first_selection)))
             g2 == PutSecond(g1, SetMatched(Deref(g1, g1.second_selection)))
         IN  CheckVictory(g2)
    ELSE [g EXCEPT !.wait_time = FPS]

\* handle_click, lines 171-179: the comparison of the two selections.
Compare(g) ==
    IF Deref(g, g.first_selection).value = Deref(g, g.second_selection).value
    THEN LET g1 == PutFirst(g, SetMatched(Deref(g, g.first_selection)))
             g2 == PutSecond(g1, SetMatched(Deref(g1, g1.second_selection)))
         IN  ResetSelection(CheckVictory(g2))
    ELSE [g EXCEPT !.wait_time = FPS]

\* SecondPick without line 169: the move is not counted.
SecondPickUncounted(g, i) ==
    Compare([g EXCEPT !.second_selection = CardRef(i), !.cards[i] = Flip(@)])

\* handle_click, lines 166-179: the clicked card becomes the second selection.
SecondPick(g, i) ==
    Compare([g EXCEPT !.second_selection = CardRef(i),
                      !.cards[i] = Flip(@),
                      !.moves = @ + 1])

\* Clickable without the tests of is_flipped and is_matched in line 162.
ClickableAnyState(g, pos) ==
    {i \in 1..Len(g.cards) : CollidePoint(g.cards[i], pos)}

\* The cards handle_click's loop accepts for the click at pos.
Clickable(g, pos) ==
    {i \in 1..Len(g.cards) :
        /\ CollidePoint(g.cards[i], pos)
        /\ ~g.cards[i].is_flipped
        /\ ~g.cards[i].is_matched}

First(S) == CHOOSE i \in S : \A j \in S : i <= j

\* Game.handle_click
HandleClick(g, pos) ==
    IF g.wait_time > 0 \/ g.victory
    THEN g
    ELSE IF Clickable(g, pos) = {}
         THEN g
         ELSE LET i == First(Clickable(g, pos))
              IN  IF g.first_selection = None
                  THEN FirstPick(g, i)
                  ELSE IF g.second_selection = None /\ CardRef(i) # g.first_selection
                       THEN SecondPick(g, i)
                       ELSE g

\* Update with the countdown's end tested one frame too soon.
UpdateHidesEarly(g) ==
    LET g1 == [g EXCEPT !.cards = [i \in 1..Len(g.cards) |-> UpdateAnimation(g.cards[i])]]
    IN  IF g1.wait_time > 0
        THEN LET g2 == [g1 EXCEPT !.wait_time = @ - 1]
             IN  IF g2.wait_time = 1 THEN FlipBackCards(g2) ELSE g2
        ELSE g1

\* Game.update
Update(g) ==
    LET g1 == [g EXCEPT !.cards = [i \in 1..Len(g.cards) |-> UpdateAnimation(g.cards[i])]]
    IN  IF g1.wait_time > 0
        THEN LET g2 == [g1 EXCEPT !.wait_time = @ - 1]
             IN  IF g2.wait_time = 0 THEN FlipBackCards(g2) ELSE g2
        ELSE g1

\* ---------------------------------------------------------- persistence
\* CardData with line 253 writing the wrong attribute.
CardDataWrongFlag(card) ==
    [x |-> card.x, y |-> card.y, value |-> card.value,
     is_flipped |-> card.is_flipped, is_matched |-> card.is_flipped]

\* save_game, lines 248-254: one card's entry of the record.
CardData(card) ==
    [x |-> card.x, y |-> card.y, value |-> card.value,
     is_flipped |-> card.is_flipped, is_matched |-> card.is_matched]

\* save_game, lines 241-255: the record json.dump writes.
SaveData(g) ==
    [moves |-> g.moves,
     victory |-> g.victory,
     cards |-> [i \in 1..Len(g.cards) |-> CardData(g.cards[i])]]

\* The content of SAVE_FILE: no file, a JSON document, or text json.load rejects.
NoData == [moves |-> 0, victory |-> FALSE, cards |-> <<>>]
Absent == [kind |-> "absent", data |-> NoData]
Unparseable == [kind |-> "unparseable", data |-> NoData]
Json(d) == [kind |-> "json", data |-> d]

\* LoadCard without lines 280-281: flip_progress stays as Card.__init__ set it.
LoadCardUnsettled(card_data) ==
    [Card(card_data.x, card_data.y, card_data.value)
       EXCEPT !.is_flipped = card_data.is_flipped,
              !.is_matched = card_data.is_matched]

\* load_game, lines 277-281: the Card built from one entry of the record.
LoadCard(card_data) ==
    LET card == [Card(card_data.x, card_data.y, card_data.value)
                   EXCEPT !.is_flipped = card_data.is_flipped,
                          !.is_matched = card_data.is_matched]
    IN  IF card.is_flipped \/ card.is_matched
        THEN [card EXCEPT !.flip_progress = CARD_SIZE]
        ELSE card

\* The keys lines 277-279 read from an entry; a missing one raises KeyError.
CardKeys == {"x", "y", "value", "is_flipped", "is_matched"}

\* The entries the loop of lines 276-282 appends before it ends or raises.
Loadable(entries) ==
    LET bad == {k \in 1..Len(entries) : ~(CardKeys \subseteq DOMAIN entries[k])}
    IN  IF bad = {} THEN Len(entries) ELSE First(bad) - 1

\* ResetAfterLoad without line 286: the countdown is left running.
ResetAfterLoadKeepsCountdown(g) ==
    [g EXCEPT !.first_selection = None, !.second_selection = None]

\* load_game, lines 284-286
ResetAfterLoad(g) ==
    [g EXCEPT !.first_selection = None, !.second_selection = None, !.wait_time = 0]

\* load_game, lines 268-292: the try block on the parsed record d.  An
\* exception (here the KeyError of a missing key) ends the call at that
\* line, with the assignments made so far in place, and False is returned.
LoadRecord(g, d) ==
    IF "moves" \notin DOMAIN d
    THEN [g |-> g, ok |-> FALSE, why |-> "error"]
    ELSE LET g1 == [g EXCEPT !.moves = d.moves]
         IN  IF "victory" \notin DOMAIN d
             THEN [g |-> g1, ok |-> FALSE, why |-> "error"]
             ELSE LET g2 == [g1 EXCEPT !.victory = d.victory,
                                       !.cards = <<>>,
                                       !.first_selection = Detach(g, @),
                                       !.second_selection = Detach(g, @)]
                  IN  IF "cards" \notin DOMAIN d
                      THEN [g |-> g2, ok |-> FALSE, why |-> "error"]
                      ELSE LET n == Loadable(d.cards)
                               g3 == [g2 EXCEPT !.cards =
                                        [i \in 1..n |-> LoadCard(d.cards[i])]]
                           IN  IF n < Len(d.cards)
                               THEN [g |-> g3, ok |-> FALSE, why |-> "error"]
                               ELSE [g |-> ResetAfterLoad(g3), ok |-> TRUE, why |-> "ok"]

\* LoadGame clearing the selections before it looks for the file.
LoadGameClearsFirst(g, f) ==
    IF f.kind = "absent"
    THEN [g |-> ResetSelection(g), ok |-> FALSE, why |-> "absent"]
    ELSE IF f.kind = "unparseable"
         THEN [g |-> g, ok |-> FALSE, why |-> "error"]
         ELSE LoadRecord(g, f.data)

\* Game.load_game on the file content f: the session afterwards, the value
\* returned, and why.
LoadGame(g, f) ==
    IF f.kind = "absent"
    THEN [g |-> g, ok |-> FALSE, why |-> "absent"]
    ELSE IF f.kind = "unparseable"
         THEN [g |-> g, ok |-> FALSE, why |-> "error"]
         ELSE LoadRecord(g, f.data)

\* --------------------------------------------------------------- inputs
Reverse(s) == [i \in 1..Len(s) |-> s[Len(s) - i + 1]]

\* Two outcomes of random.shuffle(CARD_VALUES * 2), written as the cards get
\* their values (row by row); initialize_cards pops them from the end.
DealA == <<"1", "2", "2", "1", "3", "3", "4", "4",
           "5", "5", "6", "6", "7", "7", "8", "8">>
DealB == <<"1", "2", "3", "1", "2", "3", "4", "4",
           "5", "6", "5", "6", "7", "8", "7", "8">>
Shuffles == {Reverse(DealA), Reverse(DealB)}

\* The click positions: the centre of each of the first three cards of the
\* grid, and the window's corner, which no card covers.
Targets == {1, 2, 3}
ClickPositions ==
    {<<InitializeCards(Reverse(DealA))[k].x + CARD_SIZE \div 2,
       InitializeCards(Reverse(DealA))[k].y + CARD_SIZE \div 2>> : k \in Targets}
    \cup {<<0, 0>>}

\* A session an earlier run of the program reached and saved with its S key:
\* deal A after seven matching moves, the pair on cards 2 and 3 still hidden.
LateGame ==
    [NewGame(Reverse(DealA)) EXCEPT
        !.moves = 7,
        !.cards = [k \in 1..Len(@) |->
                     IF k \in {2, 3} THEN @[k]
                     ELSE [@[k] EXCEPT !.is_flipped = TRUE, !.is_matched = TRUE,
                                       !.flip_progress = CARD_SIZE]]]
SavedLate == SaveData(LateGame)

\* A session an earlier run saved when it was quit right after a first pick
\* (main saves an unfinished game on QUIT): deal A, the pair on cards 5 and 6
\* matched in one move, then card 2 tapped and face-up.
MidPickGame ==
    FirstPick(SecondPick(FirstPick(NewGame(Reverse(DealA)), 5), 6), 2)
SavedMidPick == SaveData(MidPickGame)

\* The record SavedLate damaged outside the program: the entry of card 2 has lost
\* its "value" key.
SavedKeyMissing ==
    [SavedLate EXCEPT !.cards[2] =
        [x |-> @.x, y |-> @.y, is_flipped |-> @.is_flipped, is_matched |-> @.is_matched]]

\* The record SavedLate damaged outside the program: card 2 carries the symbol of
\* cards 1 and 4, so "1" is on three tiles and "2" on one.
SavedOddSymbol == [SavedLate EXCEPT !.cards[2].value = "1"]

\* What SAVE_FILE may hold when the program starts.
InitialFiles ==
    {Absent, Json(SavedLate), Json(SavedMidPick),
     Json(SavedKeyMissing), Json(SavedOddSymbol)}

\* ------------------------------------------------------------- main()
\* last_event: the call, its outcome, and (for load_game) what was pending in
\* the session when the call was made: a countdown, a first pick, or nothing.
Event(call, outcome) == [call |-> call, outcome |-> outcome, pending |-> "none"]
Pending(g) == IF g.wait_time > 0 THEN "countdown"
              ELSE IF g.first_selection # None THEN "pick" ELSE "none"
LoadEvent(g, r) == [call |-> "load_game", outcome |-> r.why, pending |-> Pending(g)]

\* A tap that reveals a tile while a first pick is outstanding completes a
\* two-tile comparison.
Compares(g, pos) == g.first_selection # None /\ HandleClick(g, pos).cards # g.cards

\* No tile is half-turned: every flip animation has run to its end.
Settled(g) ==
    \A i \in 1..Len(g.cards) : g.cards[i].flip_progress \in {0, CARD_SIZE}

\* The mouse and key events the run takes: the player clicks and presses S, L
\* and R while no tile is half-turned (update runs in every frame, whatever
\* the tiles show), and the step is within the budget.  An event that
\* changes neither the session nor the file is not counted.
Counted == <<game', save_file'>> # <<game, save_file>>
InBudget ==
    /\ Settled(game)
    /\ Counted => events < MaxEvents
    /\ events' = IF Counted THEN events + 1 ELSE events

\* main, line 295: game = Game()
Init ==
    /\ \E values \in Shuffles : game = NewGame(values)
    /\ save_file \in InitialFiles
    /\ status = "starting"
    /\ last_event = Event("Game", "ok")
    /\ compared = 0
    /\ from_new = TRUE
    /\ events = 0
    /\ NoTracker
    /\ NoAccounts

\* main, line 298: game.load_game() at startup
StartupLoad ==
    /\ status = "starting"
    /\ UNCHANGED <<tracker_vars, account_vars>>
    /\ LET r == LoadGame(game, save_file)
       IN  /\ game' = r.g
           /\ last_event' = LoadEvent(game, r)
           /\ from_new' = (from_new /\ ~r.ok /\ r.g = game)
    /\ status' = "running"
    /\ UNCHANGED <<save_file, compared, events>>

\* main, lines 308-310: MOUSEBUTTONDOWN, left button
Click ==
    /\ status = "running"
    /\ UNCHANGED <<tracker_vars, account_vars>>
    /\ \E pos \in ClickPositions :
         /\ game' = HandleClick(game, pos)
         /\ compared' = IF Compares(game, pos) THEN compared + 1 ELSE compared
    /\ last_event' = Event("play", "ok")
    /\ UNCHANGED <<save_file, status, from_new>>
    /\ InBudget

\* main, line 322: game.update(), once per frame
Tick ==
    /\ status = "running"
    /\ UNCHANGED <<tracker_vars, account_vars>>
    /\ game' = Update(game)
    /\ last_event' = Event("play", "ok")
    /\ UNCHANGED <<save_file, status, compared, from_new, events>>

\* main, lines 312-314: K_r
Restart ==
    /\ status = "running"
    /\ UNCHANGED <<tracker_vars, account_vars>>
    /\ \E values \in Shuffles : game' = NewGame(values)
    /\ last_event' = Event("Game", "ok")
    /\ compared' = 0
    /\ from_new' = TRUE
    /\ UNCHANGED <<save_file, status>>
    /\ InBudget

\* Game.save_game when open() and json.dump succeed.
SaveWritten == save_file' = Json(SaveData(game))

\* Game.save_game when the file cannot be written: open() raises and the
\* file is as it was, or the write raises after open() truncated the file.
\* save_game catches nothing, and neither does main: the exception ends the
\* program.
SaveRaises == save_file' \in {save_file, Unparseable}

\* The program has ended (sys.exit(), or an exception that left main): its
\* objects are gone, SAVE_FILE stays.
Ended(how, call, outcome) ==
    /\ status' = how
    /\ last_event' = Event(call, outcome)
    /\ game' = NoGame
    /\ compared' = 0
    /\ from_new' = FALSE
    /\ events' = 0

\* SaveKey with a save_game that ends like load_game (lines 284-286).
SaveKeyResets ==
    /\ status = "running"
    /\ UNCHANGED <<tracker_vars, account_vars>>
    /\ \/ /\ SaveWritten
          /\ last_event' = Event("save_game", "ok")
          /\ game' = ResetAfterLoad(game)
          /\ UNCHANGED <<status, compared, from_new>>
          /\ InBudget
       \/ /\ SaveRaises
          /\ Ended("crashed", "save_game", "error")

\* main, lines 315-317: K_s
SaveKey ==
    /\ status = "running"
    /\ UNCHANGED <<tracker_vars, account_vars>>
    /\ \/ /\ SaveWritten
          /\ last_event' = Event("save_game", "ok")
          /\ UNCHANGED <<game, status, compared, from_new>>
          /\ InBudget
       \/ /\ SaveRaises
          /\ Ended("crashed", "save_game", "error")

\* main, lines 318-320: K_l
LoadKey ==
    /\ status = "running"
    /\ UNCHANGED <<tracker_vars, account_vars>>
    /\ LET r == LoadGame(game, save_file)
       IN  /\ game' = r.g
           /\ last_event' = LoadEvent(game, r)
           /\ from_new' = (from_new /\ ~r.ok /\ r.g = game)
    /\ UNCHANGED <<save_file, status, compared>>
    /\ InBudget

\* Quit without the test of line 304: save_game is called in every case.
QuitSavesAlways ==
    /\ status = "running"
    /\ UNCHANGED <<tracker_vars, account_vars>>
    /\ \/ SaveWritten /\ Ended("exited", "quit", "ok")
       \/ SaveRaises /\ Ended("crashed", "save_game", "error")

\* main, lines 302-307: QUIT
Quit ==
    /\ status = "running"
    /\ UNCHANGED <<tracker_vars, account_vars>>
    /\ \/ game.victory /\ UNCHANGED save_file /\ Ended("exited", "quit", "ok")
       \/ ~game.victory /\ SaveWritten /\ Ended("exited", "quit", "ok")
       \/ ~game.victory /\ SaveRaises /\ Ended("crashed", "save_game", "error")

Next ==
    \/ StartupLoad
    \/ Click
    \/ Tick
    \/ Restart
    \/ SaveKey
    \/ LoadKey
    \/ Quit

Spec == Init /\ [][Next]_vars

\* ------------------------------------------- Game() in other configurations
\* initialize_cards reads the module constants GRID_SIZE and CARD_VALUES and
\* tests nothing about them.  The operators below are lines 137-153 for a
\* program built with grid_size in place of GRID_SIZE; `values` is the
\* shuffled CARD_VALUES * 2.
StartOn(extent, grid_size) ==
    (extent - (grid_size * CARD_SIZE + (grid_size - 1) * CARD_SPACING)) \div 2

\* values.pop() on an empty list raises IndexError: with more cells than
\* values Game() raises and no session is made.
PopRaises(grid_size, values) == grid_size * grid_size > Len(values)

InitializeCardsOn(grid_size, values) ==
    [k \in 1..(grid_size * grid_size) |->
        LET row == (k - 1) \div grid_size
            col == (k - 1) % grid_size
        IN  Card(StartOn(WINDOW_WIDTH, grid_size) + col * (CARD_SIZE + CARD_SPACING),
                 StartOn(WINDOW_HEIGHT, grid_size) + row * (CARD_SIZE + CARD_SPACING),
                 values[Len(values) - k + 1])]

\* The grid sizes the program is built with, and outcomes of the shuffle.
GridSizes == 1..5
Rotate(s, k) == [i \in 1..Len(s) |-> s[((i + k - 1) % Len(s)) + 1]]
ConfigShuffles ==
    {Rotate(d, k) : d \in {DealA, DealB, Reverse(DealA), Reverse(DealB)},
                    k \in 0..(Len(DealA) - 1)}

\* Before main runs.
ConfigInit ==
    /\ game = NoGame
    /\ save_file = Absent
    /\ status = "configured"
    /\ last_event = Event("none", "ok")
    /\ compared = 0
    /\ from_new = TRUE
    /\ events = 0
    /\ NoTracker
    /\ NoAccounts

\* main, line 295, in a build with grid size grid_size.
CreateGame ==
    /\ status = "configured"
    /\ UNCHANGED <<tracker_vars, account_vars>>
    /\ \E grid_size \in GridSizes : \E values \in ConfigShuffles :
          IF PopRaises(grid_size, values)
          THEN /\ game' = NoGame
               /\ status' = "crashed"
               /\ last_event' = Event("Game", "error")
          ELSE /\ game' = [NewGame(values) EXCEPT
                              !.cards = InitializeCardsOn(grid_size, values)]
               /\ status' = "starting"
               /\ last_event' = Event("Game", "ok")
    /\ UNCHANGED <<save_file, compared, from_new, events>>

ConfigNext == CreateGame

ConfigSpec == ConfigInit /\ [][ConfigNext]_vars

\* ======================================================= habit tracker
\* src/dailytask.py, the Add/Edit Habits screen of one logged-in user.  Every
\* widget event is one run of the script: it loads the user's data file
\* (line 493), the handler of the widget changes the loaded data and saves
\* it, and the data in memory are dropped at the rerun.

\* create_user, lines 73-77: the data file of a new account.
DefaultHabits == <<"Drink Water", "Exercise", "Read", "Meditate">>
NewUserData == [habits |-> DefaultHabits, history |-> EmptyDict]

\* get_today_str: the date of the session.
Today == "today"

\* d[key] = value, and del d[key]
DictSet(d, key, value) == [k \in DOMAIN d \cup {key} |-> IF k = key THEN value ELSE d[k]]
DictDel(d, key) == [k \in DOMAIN d \ {key} |-> d[k]]

\* x in list, list.index(x), list.remove(x): the first occurrence.
Member(list, x) == \E i \in 1..Len(list) : list[i] = x
Index(list, x) == First({i \in 1..Len(list) : list[i] = x})
Remove(list, x) ==
    LET i == Index(list, x)
    IN  SubSeq(list, 1, i - 1) \o SubSeq(list, i + 1, Len(list))

\* initialize_today
InitializeToday(data) ==
    IF Today \in DOMAIN data.history
    THEN data
    ELSE [data EXCEPT !.history =
             DictSet(data.history, Today,
                     [habit \in {data.habits[i] : i \in 1..Len(data.habits)} |-> FALSE])]

\* add_edit_habits_screen, lines 505-511: the new habit is appended and
\* entered in today's tracking.
AddHabit(data, new_habit) ==
    [habits |-> Append(data.habits, new_habit),
     history |-> IF Today \in DOMAIN data.history
                 THEN DictSet(data.history, Today,
                              DictSet(data.history[Today], new_habit, FALSE))
                 ELSE data.history]

\* add_edit_habits_screen, lines 538-543
DeleteHabit(data, habit) ==
    [habits |-> Remove(data.habits, habit),
     history |-> [date \in DOMAIN data.history |-> DictDel(data.history[date], habit)]]

\* add_edit_habits_screen, lines 562-569
RenameHabit(data, old_habit, edited_habit) ==
    [habits |-> [data.habits EXCEPT ![Index(data.habits, old_habit)] = edited_habit],
     history |-> [date \in DOMAIN data.history |->
                     LET day == data.history[date]
                     IN  IF old_habit \in DOMAIN day
                         THEN DictDel(DictSet(day, edited_habit, day[old_habit]), old_habit)
                         ELSE day]]

\* What the user types into the two name fields: nothing, the name of a
\* default habit, or a name no account starts with.
TypedNames == {"", "Read", "Walk"}

\* The user has logged in to a new account; the Daily Tracker may have
\* entered today in the history.
TrackerInit ==
    /\ game = NoGame
    /\ save_file = Absent
    /\ status = "tracker"
    /\ last_event = Event("none", "ok")
    /\ compared = 0
    /\ from_new = TRUE
    /\ events = 0
    /\ user_data \in {NewUserData, InitializeToday(NewUserData)}
    /\ edit_mode = FALSE
    /\ habit_to_edit = ""
    /\ NoAccounts

\* lines 496-515: the Add Habit form is submitted (while the list is
\* shorter than MaxHabits).
AddHabitForm ==
    /\ status = "tracker"
    /\ Len(user_data.habits) < MaxHabits
    /\ \E new_habit \in TypedNames :
          IF new_habit # "" /\ ~Member(user_data.habits, new_habit)
          THEN user_data' = AddHabit(user_data, new_habit)
          ELSE UNCHANGED user_data
    /\ UNCHANGED <<edit_mode, habit_to_edit>>
    /\ UNCHANGED game_vars
    /\ UNCHANGED account_vars

\* lines 529-533: the Edit button of row i.
EditButton ==
    /\ status = "tracker"
    /\ \E i \in 1..Len(user_data.habits) :
          /\ habit_to_edit' = user_data.habits[i]
          /\ edit_mode' = TRUE
    /\ UNCHANGED user_data
    /\ UNCHANGED game_vars
    /\ UNCHANGED account_vars

\* lines 535-547: the Delete button of row i.
DeleteButton ==
    /\ status = "tracker"
    /\ \E i \in 1..Len(user_data.habits) :
          user_data' = DeleteHabit(user_data, user_data.habits[i])
    /\ UNCHANGED <<edit_mode, habit_to_edit>>
    /\ UNCHANGED game_vars
    /\ UNCHANGED account_vars

\* lines 550-575: Save Changes in the edit form.  The field starts with
\* the old name.  index() raises ValueError when the habit picked for
\* editing has been deleted since: the run of the script ends there, with
\* nothing saved and the form still open.
SaveChanges ==
    /\ status = "tracker"
    /\ edit_mode
    /\ \E edited_habit \in TypedNames \cup {habit_to_edit} :
          LET old_habit == habit_to_edit
          IN  IF edited_habit # "" /\ edited_habit # old_habit
              THEN IF Member(user_data.habits, old_habit)
                   THEN /\ user_data' = RenameHabit(user_data, old_habit, edited_habit)
                        /\ edit_mode' = FALSE
                   ELSE UNCHANGED <<user_data, edit_mode>>
              ELSE /\ UNCHANGED user_data
                   /\ edit_mode' = FALSE
    /\ UNCHANGED habit_to_edit
    /\ UNCHANGED game_vars
    /\ UNCHANGED account_vars

\* lines 577-580: Cancel in the edit form.
CancelEdit ==
    /\ status = "tracker"
    /\ edit_mode
    /\ edit_mode' = FALSE
    /\ UNCHANGED <<user_data, habit_to_edit>>
    /\ UNCHANGED game_vars
    /\ UNCHANGED account_vars

TrackerNext ==
    \/ AddHabitForm
    \/ EditButton
    \/ DeleteButton
    \/ SaveChanges
    \/ CancelEdit

TrackerSpec == TrackerInit /\ [][TrackerNext]_vars

\* ============================================== habit tracker accounts
\* src/dailytask.py, the login screen: the registry of accounts in
\* USERS_FILE and one data file per account, all in DATA_DIR.  data_dir maps
\* the path of every file that exists to the JSON value it holds.  The files
\* are written by json.dump only, and the writes succeed.

\* A path DATA_DIR / (stem + ".json"), by its parts.  The names typed here
\* hold neither a separator nor a dot, so two paths name the same file
\* exactly when their stems are equal.
DataPath(stem) == <<"data", stem, ".json">>

\* lines 16-17
USERS_FILE == DataPath("users")

\* get_user_data_file
GetUserDataFile(username) == DataPath(username)

\* hash_password: SHA-256 of the password, taken as free of collisions.
HashPassword(password) == <<"sha256", password>>

\* load_users (every file in data_dir parses)
LoadUsers(dir) == IF USERS_FILE \in DOMAIN dir THEN dir[USERS_FILE] ELSE EmptyDict

\* save_users
SaveUsers(dir, users) == DictSet(dir, USERS_FILE, users)

\* load_user_data
LoadUserData(dir, username) ==
    IF GetUserDataFile(username) \in DOMAIN dir
    THEN dir[GetUserDataFile(username)]
    ELSE EmptyUserData

\* save_user_data
SaveUserData(dir, username, data) == DictSet(dir, GetUserDataFile(username), data)

\* verify_user
VerifyUser(dir, username, password) ==
    LET users == LoadUsers(dir)
    IN  /\ username \in DOMAIN users
        /\ users[username].password = HashPassword(password)

\* create_user: the directory after the call, and what the call returned.
CreateUser(dir, username, password, created_at) ==
    LET users == LoadUsers(dir)
    IN  IF username \in DOMAIN users
        THEN [dir |-> dir, returned |-> FALSE]
        ELSE LET entry == [password |-> HashPassword(password),
                           created_at |-> created_at]
                 saved == SaveUsers(dir, DictSet(users, username, entry))
             IN  [dir |-> SaveUserData(saved, username, NewUserData),
                  returned |-> TRUE]

\* initialize_today, on the files
InitializeTodayOf(dir, username) ==
    LET data == LoadUserData(dir, username)
    IN  IF Today \in DOMAIN data.history
        THEN dir
        ELSE SaveUserData(dir, username, InitializeToday(data))

\* What visitors type into the forms: nothing, two ordinary names, and the
\* stem of USERS_FILE; nothing or one of two passwords.
Usernames == {"", "ann", "bob", "users"}
Passwords == {"", "pw1", "pw2"}
\* datetime.now().isoformat() at the moments of the calls
Times == {"t1", "t2"}

\* The program is started on an empty DATA_DIR; nobody is logged in.
AccountInit ==
    /\ game = NoGame
    /\ save_file = Absent
    /\ status = "accounts"
    /\ last_event = Event("none", "ok")
    /\ compared = 0
    /\ from_new = TRUE
    /\ events = 0
    /\ NoTracker
    /\ NoAccounts

\* login_screen, lines 410-430: the Sign Up form is submitted.
SignUp ==
    /\ status = "accounts"
    /\ \E new_username \in Usernames : \E new_password, confirm_password \in Passwords :
       \E created_at \in Times :
          IF new_username = "" \/ new_password = ""
          THEN /\ last_event' = Event("signup", "empty")
               /\ UNCHANGED account_vars
          ELSE IF new_password # confirm_password
          THEN /\ last_event' = Event("signup", "mismatch")
               /\ UNCHANGED account_vars
          ELSE LET r == CreateUser(data_dir, new_username, new_password, created_at)
               IN  IF r.returned
                   THEN /\ data_dir' = InitializeTodayOf(r.dir, new_username)
                        /\ session_state' = [user_logged_in |-> TRUE,
                                             current_user |-> new_username,
                                             first_login |-> TRUE,
                                             active_tab |-> "Home"]
                        /\ last_event' = Event("signup", "created")
                   ELSE /\ data_dir' = r.dir
                        /\ UNCHANGED session_state
                        /\ last_event' = Event("signup", "exists")
    /\ UNCHANGED <<game, save_file, status, compared, from_new, events>>
    /\ UNCHANGED tracker_vars

\* login_screen, lines 386-405: the Login form is submitted.
Login ==
    /\ status = "accounts"
    /\ \E username \in Usernames : \E password \in Passwords :
          IF VerifyUser(data_dir, username, password)
          THEN /\ session_state' =
                     [user_logged_in |-> TRUE,
                      current_user |-> username,
                      first_login |-> IF DOMAIN LoadUserData(data_dir, username).history = {}
                                      THEN TRUE ELSE session_state.first_login,
                      active_tab |-> "Home"]
               /\ data_dir' = InitializeTodayOf(data_dir, username)
               /\ last_event' = Event("login", "ok")
          ELSE /\ last_event' = Event("login", "invalid")
               /\ UNCHANGED account_vars
    /\ UNCHANGED <<game, save_file, status, compared, from_new, events>>
    /\ UNCHANGED tracker_vars

\* logout_user (the Logout button, lines 354-357)
Logout ==
    /\ status = "accounts"
    /\ session_state' = [session_state EXCEPT !.user_logged_in = FALSE,
                                              !.current_user = NoUser,
                                              !.active_tab = "Home"]
    /\ last_event' = Event("logout", "ok")
    /\ UNCHANGED data_dir
    /\ UNCHANGED <<game, save_file, status, compared, from_new, events>>
    /\ UNCHANGED tracker_vars

\* The welcome screen's button, lines 318-320
DismissWelcome ==
    /\ status = "accounts"
    /\ session_state.user_logged_in
    /\ session_state.first_login
    /\ session_state' = [session_state EXCEPT !.first_login = FALSE]
    /\ last_event' = Event("welcome", "ok")
    /\ UNCHANGED data_dir
    /\ UNCHANGED <<game, save_file, status, compared, from_new, events>>
    /\ UNCHANGED tracker_vars

AccountNext ==
    \/ SignUp
    \/ Login
    \/ Logout
    \/ DismissWelcome

AccountSpec == AccountInit /\ [][AccountNext]_vars

\* =============================================================== claims
Tiles(g) == 1..Len(g.cards)
FaceUpUnmatched(g) == {i \in Tiles(g) : g.cards[i].is_flipped /\ ~g.cards[i].is_matched}
AllMatched(g) == \A i \in Tiles(g) : g.cards[i].is_matched
OnTiles(g, value) == {i \in Tiles(g) : g.cards[i].value = value}
LoadedOk == last_event.call = "load_game" /\ last_event.outcome = "ok"
\* The program is alive, so there is a session.
Alive == status \in {"starting", "running"}

\* A new game as the spec describes it: 16 face-down unmatched tiles, no
\* move made, not complete, no pick, no countdown.
IsNewGame(g) ==
    /\ Len(g.cards) = 16
    /\ \A i \in Tiles(g) : ~g.cards[i].is_flipped /\ ~g.cards[i].is_matched
    /\ g.moves = 0
    /\ ~g.victory
    /\ g.first_selection = None /\ g.second_selection = None
    /\ g.wait_time = 0

\* A record the spec calls corrupt: a required field is missing, or some
\* symbol is not on exactly two tiles.
CorruptRecord(d) ==
    \/ ~({"moves", "victory", "cards"} \subseteq DOMAIN d)
    \/ \E k \in 1..Len(d.cards) : ~(CardKeys \subseteq DOMAIN d.cards[k])
    \/ \E k \in 1..Len(d.cards) :
          Cardinality({j \in 1..Len(d.cards) : d.cards[j].value = d.cards[k].value}) # 2

\* C1: in every reachable session at most two tiles are face-up and not
\* matched.  (Refuted: a record saved after a pick is loaded with the picks
\* cleared, the picked tile stays face-up, and two more tiles can be picked.)
C1_AtMostTwoFaceUp == Alive => Cardinality(FaceUpUnmatched(game)) <= 2

\* C2: from a new game on, under handle_click and update alone, the move
\* counter equals the number of second picks made, matching or not.
C2_MovesCountComparisons == (Alive /\ from_new) => game.moves = compared
\* Two comparisons were made, a mismatch and then a match.
C2_TwoComparisons ==
    /\ from_new /\ compared = 2 /\ game.moves = 2
    /\ \E i \in Tiles(game) : game.cards[i].is_matched

\* C3: every symbol present among the session's tiles is on exactly two tiles.
\* (Refuted through load_game, which installs what a damaged record holds.)
C3_EverySymbolOnTwoTiles ==
    Alive => \A i \in Tiles(game) : Cardinality(OnTiles(game, game.cards[i].value)) = 2

\* C4: the completion flag is true if and only if every tile is matched.
\* (Refuted through a load_game that raises after it replaced the flag and
\* part of the tiles.)
C4_VictoryIffAllMatched == Alive => (game.victory <=> AllMatched(game))

\* C5: save_game followed by load_game gives a session with the same tiles
\* (order, position, symbol, flipped, matched), move count and completion flag.
C5_RoundTrip ==
    LET r == LoadGame(game, Json(SaveData(game)))
    IN  Alive =>
        /\ r.ok
        /\ Len(r.g.cards) = Len(game.cards)
        /\ \A i \in Tiles(game) :
              /\ r.g.cards[i].x = game.cards[i].x
              /\ r.g.cards[i].y = game.cards[i].y
              /\ r.g.cards[i].value = game.cards[i].value
              /\ r.g.cards[i].is_flipped = game.cards[i].is_flipped
              /\ r.g.cards[i].is_matched = game.cards[i].is_matched
        /\ r.g.moves = game.moves
        /\ r.g.victory = game.victory
\* The S key and then the L key were pressed in a session with a matched pair
\* and a tile picked: the session loaded is the one that was saved.
C5_SavedThenLoaded ==
    /\ LoadedOk
    /\ save_file \notin InitialFiles
    /\ save_file = Json(SaveData(game))
    /\ FaceUpUnmatched(game) # {}
    /\ \E i \in Tiles(game) : game.cards[i].is_matched

\* C6: after a successful load_game both selections are unset and wait_time
\* is 0, whatever was pending before the call.
C6_LoadLeavesIdle ==
    LoadedOk =>
        /\ game.first_selection = None
        /\ game.second_selection = None
        /\ game.wait_time = 0
\* A record was loaded while the mismatch countdown was running.
C6_LoadedDuringCountdown == LoadedOk /\ last_event.pending = "countdown"

\* C7: load_game fails for every record with a required field missing or
\* with a symbol that is not on exactly two tiles.  (Refuted: no line of
\* load_game counts the symbols.)
C7_CorruptRecordRejected == LoadedOk => ~CorruptRecord(save_file.data)

\* C8: after load_game failed on a corrupt record the session played is a new
\* game.  (Refuted: the assignments made before the exception stay.)
C8_FailedLoadGivesNewGame ==
    (last_event.call = "load_game" /\ last_event.outcome = "error") => IsNewGame(game)

\* C9: load_game with no save file returns False and changes no field of the
\* session; at startup the session is then the new game Game() made.
C9_AbsentFileChangesNothing ==
    [][(save_file = Absent /\ (StartupLoad \/ LoadKey)) =>
          /\ game' = game
          /\ last_event'.outcome = "absent"
          /\ (status = "starting" => IsNewGame(game'))]_vars
\* The L key was pressed with no save file while a tile was picked.
C9_AbsentLoadMidPick ==
    /\ last_event.call = "load_game" /\ last_event.outcome = "absent"
    /\ last_event.pending = "pick"
    /\ game.first_selection # None

\* C10: when save_game cannot write, the session is as before and the driver
\* loop keeps running.  (Refuted: the exception leaves save_game and main.)
C10_SaveFailureKeepsRunning ==
    (last_event.call = "save_game" /\ last_event.outcome = "error") =>
        status = "running" /\ game # NoGame


\* The tiles the selections refer to.
PickedTiles(g) ==
    {i \in Tiles(g) : CardRef(i) = g.first_selection \/ CardRef(i) = g.second_selection}
Idle(g) ==
    /\ g.first_selection = None /\ g.second_selection = None
    /\ g.wait_time = 0 /\ ~g.victory

\* C11: from Idle a tap on a face-down tile makes it the first pick; a tap on
\* a second face-down tile with another symbol leaves both face-up and
\* unmatched, adds one to moves and sets wait_time to FPS.  Every update then
\* takes one from wait_time and leaves the picks and their tiles alone, until
\* the update that takes wait_time from 1 to 0: it turns both tiles face-down,
\* clears the picks and leaves wait_time 0.  So the hide comes after exactly
\* FPS updates.
C11_MismatchHidesAfterDelay ==
    Alive =>
    /\ \A pos \in ClickPositions :
          LET h == HandleClick(game, pos)
              j == First(Clickable(game, pos))
              i == game.first_selection.idx
          IN  /\ (Idle(game) /\ Clickable(game, pos) # {}) =>
                    /\ h.first_selection = CardRef(j) /\ h.second_selection = None
                    /\ h.cards[j].is_flipped /\ ~h.cards[j].is_matched
                    /\ h.moves = game.moves /\ h.wait_time = 0
              /\ (/\ game.first_selection.kind = "card"
                  /\ game.second_selection = None
                  /\ game.wait_time = 0 /\ ~game.victory
                  /\ Clickable(game, pos) # {}
                  /\ game.cards[j].value # game.cards[i].value) =>
                    /\ h.first_selection = CardRef(i) /\ h.second_selection = CardRef(j)
                    /\ h.cards[i].is_flipped /\ ~h.cards[i].is_matched
                    /\ h.cards[j].is_flipped /\ ~h.cards[j].is_matched
                    /\ h.moves = game.moves + 1
                    /\ h.wait_time = FPS
    /\ game.wait_time <= FPS
    /\ game.wait_time > 0 =>
          LET u == Update(game)
          IN  /\ u.wait_time = game.wait_time - 1
              /\ game.first_selection # None /\ game.second_selection # None
              /\ \A i \in PickedTiles(game) :
                    game.cards[i].is_flipped /\ ~game.cards[i].is_matched
              /\ IF game.wait_time > 1
                  THEN /\ u.first_selection = game.first_selection
                       /\ u.second_selection = game.second_selection
                       /\ \A i \in PickedTiles(game) : u.cards[i].is_flipped
                  ELSE /\ u.first_selection = None /\ u.second_selection = None
                       /\ \A i \in PickedTiles(game) :
                             ~u.cards[i].is_flipped /\ ~u.cards[i].is_matched
\* The first move of a new game was a mismatch and its countdown has just run
\* out: the two tiles are face-down again, their animation still to come.
C11_MismatchHidden ==
    /\ Alive /\ from_new /\ game.moves = 1 /\ Idle(game)
    /\ Cardinality({i \in Tiles(game) :
            /\ ~game.cards[i].is_flipped /\ ~game.cards[i].is_matched
            /\ game.cards[i].flip_progress = CARD_SIZE}) = 2


\* C12: a tap on a second face-down tile that carries the first pick's symbol
\* leaves, when handle_click returns, both tiles matched (and face-up), the
\* picks cleared, one move counted and wait_time 0; unless that completed the
\* game, handle_click then accepts a tap on any face-down tile at once.
C12_MatchIsImmediate ==
    Alive =>
    \A pos \in ClickPositions :
        LET h == HandleClick(game, pos)
            j == First(Clickable(game, pos))
            i == game.first_selection.idx
        IN  (/\ game.first_selection.kind = "card"
             /\ game.second_selection = None
             /\ game.wait_time = 0 /\ ~game.victory
             /\ Clickable(game, pos) # {}
             /\ game.cards[j].value = game.cards[i].value) =>
               /\ h.cards[i].is_matched /\ h.cards[i].is_flipped
               /\ h.cards[j].is_matched /\ h.cards[j].is_flipped
               /\ h.first_selection = None /\ h.second_selection = None
               /\ h.moves = game.moves + 1
               /\ h.wait_time = 0
               /\ ~h.victory =>
                     \A next \in ClickPositions :
                         Clickable(h, next) # {} =>
                             HandleClick(h, next).first_selection =
                                 CardRef(First(Clickable(h, next)))
\* The first move of a new game was a match, and no update has run since: the
\* second tile is matched before its animation has started.
C12_MatchedAtOnce ==
    /\ Alive /\ from_new /\ game.moves = 1 /\ Idle(game)
    /\ Cardinality({i \in Tiles(game) : game.cards[i].is_matched}) = 2
    /\ \E i \in Tiles(game) : game.cards[i].is_matched /\ game.cards[i].flip_progress = 0


\* C13: the handle_click after which every tile is matched returns with the
\* completion flag set; and in a session whose flag is set no handle_click,
\* at any position, changes a tile's visibility or matched flag, the picks
\* or the move count, and neither it nor update clears the flag.
C13_CompleteIsFinal ==
    Alive =>
    \A pos \in ClickPositions :
        LET h == HandleClick(game, pos)
        IN  /\ (~AllMatched(game) /\ AllMatched(h)) => h.victory
            /\ game.victory =>
                  /\ h.victory /\ Update(game).victory
                  /\ Len(h.cards) = Len(game.cards)
                  /\ \A i \in Tiles(game) :
                        /\ h.cards[i].is_flipped = game.cards[i].is_flipped
                        /\ h.cards[i].is_matched = game.cards[i].is_matched
                  /\ h.first_selection = game.first_selection
                  /\ h.second_selection = game.second_selection
                  /\ h.moves = game.moves
\* The eighth pair was matched by a tap of this run: all sixteen tiles are
\* matched, the last one's animation is not finished, and the flag is set.
C13_LastPairMatched ==
    /\ Alive /\ game.victory /\ Len(game.cards) = 16 /\ AllMatched(game)
    /\ last_event.call = "play"
    /\ \E i \in Tiles(game) : game.cards[i].flip_progress < CARD_SIZE


\* The tiles whose rectangle holds the position tapped.
Tapped(g, pos) == {i \in Tiles(g) : CollidePoint(g.cards[i], pos)}

\* C14: handle_click returns the session as it was, every field of it, when
\* the session is complete, when wait_time > 0, when the tapped tile is
\* face-up or matched, and when the tapped tile is the first pick.
C14_IgnoredTaps ==
    Alive =>
    \A pos \in ClickPositions :
        (\/ game.victory
         \/ game.wait_time > 0
         \/ \E i \in Tapped(game, pos) :
               \/ game.cards[i].is_flipped
               \/ game.cards[i].is_matched
               \/ CardRef(i) = game.first_selection)
        => HandleClick(game, pos) = game
\* A tile is the first pick and another tile is matched, both under a click
\* position, with no countdown running: taps on either are the ignored ones.
C14_PickAndMatchedUnderTap ==
    /\ Alive /\ ~game.victory /\ game.wait_time = 0
    /\ \E pos \in ClickPositions : \E i \in Tapped(game, pos) :
          CardRef(i) = game.first_selection
    /\ \E pos \in ClickPositions : \E i \in Tapped(game, pos) :
          game.cards[i].is_matched


\* C15: in every reachable session second_selection is set only when
\* first_selection is set, and wait_time > 0 implies that both selections are
\* set, refer to two distinct tiles of the session, and have different symbols.
\* (Refuted: a load_game that raises during the countdown has replaced the
\* tiles and left wait_time and the selections, which now refer to Card
\* objects that are no tiles of the session.)
C15_SelectionsConsistent ==
    Alive =>
    /\ game.second_selection # None => game.first_selection # None
    /\ game.wait_time > 0 =>
          /\ game.first_selection.kind = "card"
          /\ game.second_selection.kind = "card"
          /\ game.first_selection.idx # game.second_selection.idx
          /\ game.cards[game.first_selection.idx].value #
                 game.cards[game.second_selection.idx].value


\* C16: a tile that is matched is still matched and face-up after any
\* handle_click and after any update, and neither call returns with a
\* selection that refers to it.
C16_MatchedIsPermanent ==
    LET matched == {i \in Tiles(game) : game.cards[i].is_matched}
        u == Update(game)
    IN  (Alive /\ matched # {}) =>
        /\ \A i \in matched :
              /\ u.cards[i].is_matched /\ u.cards[i].is_flipped
              /\ i \notin PickedTiles(u)
        /\ \A pos \in ClickPositions :
              LET h == HandleClick(game, pos)
              IN  \A i \in matched :
                      /\ h.cards[i].is_matched /\ h.cards[i].is_flipped
                      /\ i \notin PickedTiles(h)
\* With a matched pair on the board two other tiles were tapped, did not
\* match and have just been turned face-down again.
C16_MatchedThroughHide ==
    /\ Alive /\ Idle(game)
    /\ \E i \in Tiles(game) : game.cards[i].is_matched
    /\ Cardinality({i \in Tiles(game) :
            /\ ~game.cards[i].is_flipped /\ ~game.cards[i].is_matched
            /\ game.cards[i].flip_progress = CARD_SIZE}) = 2


\* The value update_animation moves a tile's flip_progress toward.
Target(card) == IF card.is_flipped \/ card.is_matched THEN CARD_SIZE ELSE 0

\* One step of size ANIMATION_SPEED from p toward t, not past t.
StepToward(p, t) ==
    IF p < t THEN (IF p + ANIMATION_SPEED > t THEN t ELSE p + ANIMATION_SPEED)
    ELSE IF p > t THEN (IF p - ANIMATION_SPEED < t THEN t ELSE p - ANIMATION_SPEED)
    ELSE p

\* C17: in every reachable session 0 <= flip_progress <= CARD_SIZE for every
\* tile, and update leaves every tile's flip_progress one ANIMATION_SPEED
\* step nearer to its target (CARD_SIZE for a face-up or matched tile, 0 for
\* a face-down one), stopping at the target and staying there.
C17_AnimationStepsToTarget ==
    Alive =>
    LET u == Update(game)
    IN  \A i \in Tiles(game) :
            /\ 0 <= game.cards[i].flip_progress
            /\ game.cards[i].flip_progress <= CARD_SIZE
            /\ u.cards[i].flip_progress =
                   StepToward(game.cards[i].flip_progress, Target(game.cards[i]))
            /\ 0 <= u.cards[i].flip_progress
            /\ u.cards[i].flip_progress <= CARD_SIZE
\* A tile on its way down is less than one step above 0, and a tile on its
\* way up less than one step below CARD_SIZE: the next update clamps both.
C17_BothClampsDue ==
    /\ Alive
    /\ \E i \in Tiles(game) :
          /\ Target(game.cards[i]) = 0
          /\ 0 < game.cards[i].flip_progress
          /\ game.cards[i].flip_progress < ANIMATION_SPEED
    /\ \E i \in Tiles(game) :
          /\ Target(game.cards[i]) = CARD_SIZE
          /\ CARD_SIZE - ANIMATION_SPEED < game.cards[i].flip_progress
          /\ game.cards[i].flip_progress < CARD_SIZE


\* C18: handle_click changes no tile's flip_progress, and update changes a
\* tile's flip_progress by at most ANIMATION_SPEED and never away from the
\* tile's target.
C18_NoAnimationJump ==
    Alive =>
    /\ \A pos \in ClickPositions :
          LET h == HandleClick(game, pos)
          IN  /\ Len(h.cards) = Len(game.cards)
              /\ \A i \in Tiles(game) :
                    h.cards[i].flip_progress = game.cards[i].flip_progress
    /\ LET u == Update(game)
       IN  \A i \in Tiles(game) :
              LET p == game.cards[i].flip_progress
                  q == u.cards[i].flip_progress
                  t == Target(game.cards[i])
              IN  /\ q - p <= ANIMATION_SPEED
                  /\ p - q <= ANIMATION_SPEED
                  /\ p <= t => (p <= q /\ q <= t)
                  /\ p >= t => (p >= q /\ q >= t)
\* handle_click has just turned a tile face-up: it is the first pick and its
\* flip_progress is still 0.
C18_PickBeforeAnimation ==
    /\ Alive
    /\ \E i \in Tiles(game) :
          /\ CardRef(i) = game.first_selection
          /\ game.cards[i].is_flipped
          /\ game.cards[i].flip_progress = 0


\* C19: update changes neither moves nor the completion flag, nor the number
\* of tiles, nor any tile's position, symbol or matched flag.  The update
\* that finds wait_time = 1 turns face-down the tiles the two picks refer to,
\* changes the visibility of no other tile and clears the picks; every other
\* update leaves every tile's visibility and both picks as they were.
C19_UpdateOnlyAdvancesTime ==
    Alive =>
    LET u == Update(game)
        turned == {i \in Tiles(game) : u.cards[i].is_flipped # game.cards[i].is_flipped}
    IN  /\ u.moves = game.moves
        /\ u.victory = game.victory
        /\ Len(u.cards) = Len(game.cards)
        /\ \A i \in Tiles(game) :
              /\ u.cards[i].x = game.cards[i].x
              /\ u.cards[i].y = game.cards[i].y
              /\ u.cards[i].value = game.cards[i].value
              /\ u.cards[i].is_matched = game.cards[i].is_matched
        /\ IF game.wait_time = 1
           THEN /\ turned = PickedTiles(game)
                /\ \A i \in turned : ~u.cards[i].is_flipped
                /\ u.first_selection = None /\ u.second_selection = None
           ELSE /\ turned = {}
                /\ u.first_selection = game.first_selection
                /\ u.second_selection = game.second_selection
\* The countdown of a mismatch is at its last frame: wait_time is 1 and the
\* two picked tiles are face-up.
C19_LastCountdownFrame ==
    /\ Alive /\ game.wait_time = 1
    /\ Cardinality(PickedTiles(game)) = 2
    /\ \A i \in PickedTiles(game) : game.cards[i].is_flipped


\* C20: the session Game() returns, at startup and at every restart whatever
\* the session before it was, has 16 tiles, all face-down and unmatched with
\* flip_progress 0, moves 0, the completion flag false, no picks and
\* wait_time 0.
C20_NewGameIsFresh ==
    last_event.call = "Game" =>
        /\ Len(game.cards) = GRID_SIZE * GRID_SIZE
        /\ Len(game.cards) = 16
        /\ \A i \in Tiles(game) :
              /\ ~game.cards[i].is_flipped
              /\ ~game.cards[i].is_matched
              /\ game.cards[i].flip_progress = 0
        /\ game.moves = 0
        /\ ~game.victory
        /\ game.first_selection = None /\ game.second_selection = None
        /\ game.wait_time = 0
\* R was pressed after at least two events of play, saving or loading.
C20_RestartedLate ==
    /\ status = "running"
    /\ last_event.call = "Game"
    /\ events >= 3


\* C21: after a successful load_game every tile restored face-up or matched
\* has flip_progress = CARD_SIZE and every tile restored face-down has
\* flip_progress = 0; and this is what loading the record of any reachable
\* session gives, whatever its tiles' flip_progress values are at the save.
C21_LoadSettlesAnimation ==
    /\ LoadedOk =>
          \A i \in Tiles(game) : game.cards[i].flip_progress = Target(game.cards[i])
    /\ Alive =>
          LET r == LoadGame(game, Json(SaveData(game)))
          IN  /\ r.ok
              /\ Len(r.g.cards) = Len(game.cards)
              /\ \A i \in Tiles(game) :
                    r.g.cards[i].flip_progress = Target(game.cards[i])
\* The record loaded was saved while its face-up and matched tiles had
\* flip_progress 0; the session loaded from it shows them fully turned.
C21_LoadedFromUnsettledSave ==
    /\ LoadedOk
    /\ save_file = Json(SavedMidPick)
    /\ \E i \in Tiles(game) :
          /\ game.cards[i].is_flipped
          /\ MidPickGame.cards[i].flip_progress = 0
          /\ game.cards[i].flip_progress = CARD_SIZE


\* C22: when QUIT ends the program (sys.exit() is reached), the save file
\* holds the record of the session as it was at that moment if the session
\* was not complete, and is what it was before if the session was complete.
C22_QuitSavesIncomplete ==
    [][(status = "running" /\ status' = "exited") =>
          IF game.victory
          THEN save_file' = save_file
          ELSE save_file' = Json(SaveData(game))]_vars
\* The program was quit in the middle of a pick: the file it left holds a
\* record, written in this run, with a face-up tile that is not matched.
C22_QuitMidPick ==
    /\ status = "exited"
    /\ save_file.kind = "json"
    /\ save_file \notin InitialFiles
    /\ ~save_file.data.victory
    /\ \E i \in 1..Len(save_file.data.cards) :
          save_file.data.cards[i].is_flipped /\ ~save_file.data.cards[i].is_matched


\* C23: Game() fails whenever the number of cells is odd or differs from
\* twice the number of symbols: a session that Game() returns has
\* 2 * Len(CARD_VALUES) tiles and every symbol on exactly two of them.
\* (Refuted: initialize_cards tests nothing; with fewer cells than values it
\* returns a session with unpaired and missing symbols.)
C23_BadConfigurationFails ==
    (last_event.call = "Game" /\ last_event.outcome = "ok") =>
        /\ Len(game.cards) = 2 * Len(CARD_VALUES)
        /\ \A v \in {CARD_VALUES[k] : k \in 1..Len(CARD_VALUES)} :
              Cardinality(OnTiles(game, v)) = 2


\* Tap positions at and around the edges of every tile: the first and last
\* pixel column and row of each tile and the pixels just outside them.
EdgesOf(origin) == {origin - 1, origin, origin + CARD_SIZE - 1, origin + CARD_SIZE}
EdgePositions(g) ==
    LET xs == UNION {EdgesOf(g.cards[i].x) : i \in Tiles(g)}
        ys == UNION {EdgesOf(g.cards[i].y) : i \in Tiles(g)}
    IN  {<<x, y>> : x \in xs, y \in ys}

\* C24: in the session Game() returns no two tiles have the same position
\* and no two tile rectangles share a pixel, every tile lies inside the
\* window, a tap lies inside at most one tile, and handle_click changes at
\* most one tile per tap.
C24_TilesDoNotOverlap ==
    (last_event.call = "Game" /\ last_event.outcome = "ok") =>
        /\ \A i, j \in Tiles(game) :
              i # j =>
                /\ <<game.cards[i].x, game.cards[i].y>> # <<game.cards[j].x, game.cards[j].y>>
                /\ \/ game.cards[i].x + CARD_SIZE <= game.cards[j].x
                   \/ game.cards[j].x + CARD_SIZE <= game.cards[i].x
                   \/ game.cards[i].y + CARD_SIZE <= game.cards[j].y
                   \/ game.cards[j].y + CARD_SIZE <= game.cards[i].y
        /\ \A i \in Tiles(game) :
              /\ 0 <= game.cards[i].x /\ game.cards[i].x + CARD_SIZE <= WINDOW_WIDTH
              /\ 0 <= game.cards[i].y /\ game.cards[i].y + CARD_SIZE <= WINDOW_HEIGHT
        /\ \A pos \in EdgePositions(game) \cup ClickPositions :
              /\ Cardinality(Tapped(game, pos)) <= 1
              /\ Cardinality({i \in Tiles(game) :
                    HandleClick(game, pos).cards[i] # game.cards[i]}) <= 1
\* R was pressed: in the new game some of the positions tried lie in the gap
\* between two tiles and some inside a tile, which a tap there turns.
C24_RestartedGrid ==
    /\ status = "running" /\ last_event.call = "Game"
    /\ \E pos \in EdgePositions(game) : Tapped(game, pos) = {}
    /\ \E pos \in EdgePositions(game) :
          /\ Cardinality(Tapped(game, pos)) = 1
          /\ HandleClick(game, pos) # game


\* C25: in every reachable session every tile that is face-up and not
\* matched is the first or the second selection.  (Refuted: load_game
\* restores a tile saved face-up and unmatched as it was and clears the
\* selections; no tap and no update ever turns that tile again.)
C25_FaceUpTilesArePicks ==
    Alive => FaceUpUnmatched(game) \subseteq PickedTiles(game)


\* C26: in every reachable session second_selection is set only while
\* wait_time > 0 (and first_selection is set too), and 0 <= wait_time <= FPS.
C26_TwoPicksOnlyInCountdown ==
    Alive =>
    /\ game.second_selection # None =>
          (game.wait_time > 0 /\ game.first_selection # None)
    /\ 0 <= game.wait_time /\ game.wait_time <= FPS
\* The countdown of a mismatch is under way, with both selections set.
C26_CountdownUnderWay ==
    /\ Alive
    /\ game.first_selection # None /\ game.second_selection # None
    /\ 0 < game.wait_time /\ game.wait_time < FPS


\* C27: in every reachable session a matched tile is face-up, there is
\* another tile with its symbol, and every tile with its symbol is matched.
\* (Refuted through load_game, which installs the tiles of a damaged record.)
C27_MatchedInPairs ==
    Alive =>
    \A i \in Tiles(game) :
        game.cards[i].is_matched =>
            /\ game.cards[i].is_flipped
            /\ \E j \in Tiles(game) : j # i /\ game.cards[j].value = game.cards[i].value
            /\ \A j \in OnTiles(game, game.cards[i].value) : game.cards[j].is_matched


\* The flip_progress of the Card a selection refers to when flip_back_cards
\* runs in this update: update has animated the cards of game.cards by then.
ProgressAtHide(g, ref) ==
    IF ref.kind = "card"
    THEN UpdateAnimation(g.cards[ref.idx]).flip_progress
    ELSE ref.obj.flip_progress

\* C28: in the update that takes wait_time from 1 to 0 and flips the two
\* picks back, both picks have flip_progress = CARD_SIZE.  (Refuted: after a
\* load_game that raised during the countdown the picks are Card objects
\* outside game.cards, which update does not animate.)
C28_ShownBeforeHidden ==
    (Alive /\ game.wait_time = 1
       /\ game.first_selection # None /\ game.second_selection # None) =>
        /\ ProgressAtHide(game, game.first_selection) = CARD_SIZE
        /\ ProgressAtHide(game, game.second_selection) = CARD_SIZE


\* C29: the step in which save_game writes its record leaves every field of
\* the session as it was: tiles, selections, wait_time, moves and the
\* completion flag.  (A countdown the save falls into goes on as C11 has it.)
C29_SaveLeavesSession ==
    [][(last_event'.call = "save_game" /\ last_event'.outcome = "ok") =>
          /\ game' = game
          /\ save_file'.kind = "json"]_vars
\* S was pressed during the countdown of a mismatch: the record is written,
\* both selections are set and the countdown is running.
C29_SavedDuringCountdown ==
    /\ last_event.call = "save_game" /\ last_event.outcome = "ok"
    /\ game.wait_time > 0
    /\ game.first_selection # None /\ game.second_selection # None
    /\ save_file = Json(SaveData(game))


\* C30: after any sequence of add-habit, rename-habit and delete-habit
\* operations on a user's data, the habits list holds no name twice.
C30_NoDuplicateHabits ==
    \A i, j \in 1..Len(user_data.habits) :
        i # j => user_data.habits[i] # user_data.habits[j]

\* The accounts of a registry: the names visitors can type that are keys
\* of it.
Registered(dir) == {u \in Usernames : u \in DOMAIN LoadUsers(dir)}

\* C31: create_user never damages existing accounts: for every username and
\* password, after the call every account registered before it is still
\* registered with the same password hash, and a call with a registered
\* username returns False and writes nothing.
C31_CreateUserKeepsAccounts ==
    status = "accounts" =>
        \A username \in Usernames : \A password \in Passwords : \A created_at \in Times :
            LET r == CreateUser(data_dir, username, password, created_at)
            IN  /\ \A u \in Registered(data_dir) :
                      /\ u \in Registered(r.dir)
                      /\ LoadUsers(r.dir)[u].password = LoadUsers(data_dir)[u].password
                /\ username \in Registered(data_dir) =>
                      ~r.returned /\ r.dir = data_dir

=============================================================================
